---- MODULE Spec2Model ----
(***************************************************************************)
(* Model of the secret transfer client of ya-gophkeeper-cli:               *)
(*   - SecretService.CreateSecret, the type-based dispatch                 *)
(*     (internal/application/secret.go)                                    *)
(*   - SecretClient, the facade over the gRPC stubs, with the chunked      *)
(*     upload (sendMetadataChunk / sendDataChunks)                         *)
(*     (internal/interfaces/grpc/secret.go)                                *)
(*   - secretStreamReader, the download reader                             *)
(*     (internal/interfaces/grpc/stream_reader.go)                         *)
(*   - AuthInterceptor and TokenRepo, the per-call token injection         *)
(*     (interceptors, internal/infrastructure/persistence/token_repo.go)   *)
(*                                                                         *)
(* The process runs one operation at a time (a CLI invocation).  The       *)
(* environment - the byte source handed to a create, the backend and the   *)
(* transport - is nondeterministic: every outcome the io.Reader contract   *)
(* and a gRPC stream allow can happen.                                     *)
(***************************************************************************)
EXTENDS Integers, Sequences, FiniteSets, TLC

(***************************************************************************)
(* Bounds of the model.                                                    *)
(***************************************************************************)
\* longest byte source handed to a create
MaxLen == 4
\* the chunk size of secret.go:19 (1024 * 512), scaled down so that sources
\* of MaxLen bytes span several chunks
chunkSize == 2
\* most messages a backend sends on the stream of a streamed get
MaxMsgs == 3
\* longest Data payload a backend sends
MaxPayload == 2
\* largest len(p) a caller passes to secretStreamReader.Read
MaxReq == 2
\* most lines of standard input given to create-text
MaxLines == 2
\* bufio.MaxScanTokenSize (64 * 1024), scaled down: the length from which a
\* line is too long for the bufio.Scanner of create-text
MaxScanTokenSize == 6

Min(a, b) == IF a < b THEN a ELSE b

\* all sequences over S of length at most n
SeqsUpTo(S, n) == UNION {[1..k -> S] : k \in 0..n}

\* ceil(n / c)
Ceil(n, c) == (n + c - 1) \div c

(***************************************************************************)
(* Errors.  A Go error is modelled by its chain, outermost wrapper first   *)
(* (fmt.Errorf("...: %w", err) prepends one element); <<>> is nil.         *)
(***************************************************************************)
NoErr == <<>>

Wrap(msg, err) == <<msg>> \o err

\* errors.Is(err, target) for a sentinel target
ErrorsIs(err, target) == \E i \in 1..Len(err) : err[i] = target

\* gRPC status codes a backend call can fail with
StatusCodes == {"NotFound", "Unavailable", "Canceled"}

(***************************************************************************)
(* Domain and wire types.                                                  *)
(***************************************************************************)
CredentialsSecretType == "credentials"
PaymentCardSecretType == "payment_card"
FileSecretType == "file"
TextSecretType == "text"

\* SecretType is a string type: a value outside the four constants exists
SecretTypes ==
  {CredentialsSecretType, PaymentCardSecretType, FileSecretType,
   TextSecretType, "note"}

mapDomainSecretTypeToProto(domainType) ==
  CASE domainType = CredentialsSecretType -> "CREDENTIALS"
    [] domainType = TextSecretType -> "TEXT"
    [] domainType = FileSecretType -> "BINARY"
    [] domainType = PaymentCardSecretType -> "PAYMENT_CARD"
    [] OTHER -> "-1"

\* the four constants of domain.SecretType
DomainSecretTypes ==
  {CredentialsSecretType, PaymentCardSecretType, FileSecretType,
   TextSecretType}

\* the values of the wire enumeration pb.SecretType that have a name
KnownProtoSecretTypes == {"CREDENTIALS", "PAYMENT_CARD", "BINARY", "TEXT"}

\* values a pb.SecretType field can hold: the named ones, the -1 that
\* mapDomainSecretTypeToProto produces, and a number no name was given to
ProtoSecretTypes == KnownProtoSecretTypes \cup {"-1", "7"}

\* variant: a value without a name is taken for a text
mapProtoSecretTypeToDomainDefaultText(stype) ==
  CASE stype = "CREDENTIALS" -> CredentialsSecretType
    [] stype = "PAYMENT_CARD" -> PaymentCardSecretType
    [] stype = "BINARY" -> FileSecretType
    [] OTHER -> TextSecretType

mapProtoSecretTypeToDomain(stype) ==
  CASE stype = "CREDENTIALS" -> CredentialsSecretType
    [] stype = "PAYMENT_CARD" -> PaymentCardSecretType
    [] stype = "BINARY" -> FileSecretType
    [] stype = "TEXT" -> TextSecretType
    [] OTHER -> "unknown"

\* domain.SecretInfo values handed to a create
SecretInfos ==
  [Name : {"n"}, Type : SecretTypes, Metadata : {"m"}, Version : {0, 4}]

\* variant: the version of the SecretInfo is sent along
mapDomainSecretInfoWithVersion(secretInfo) ==
  [Name |-> secretInfo.Name,
   Type |-> mapDomainSecretTypeToProto(secretInfo.Type),
   Metadata |-> secretInfo.Metadata,
   Version |-> secretInfo.Version]

mapDomainSecretInfoToProtoCreateSecretInfoRequest(secretInfo) ==
  [Name |-> secretInfo.Name,
   Type |-> mapDomainSecretTypeToProto(secretInfo.Type),
   Metadata |-> secretInfo.Metadata]

mapProtoGetSecretInfoResponseToDomainSecretInfo(info) ==
  [Name |-> info.Name,
   Metadata |-> info.Metadata,
   Version |-> info.Version,
   Type |-> mapProtoSecretTypeToDomain(info.Type)]

\* the two variants of a chunk message
InfoMsg(info) == [kind |-> "Info", info |-> info, data |-> <<>>]
DataMsg(bytes) == [kind |-> "Data", info |-> <<>>, data |-> bytes]

\* concatenation of the payloads of the Data messages of a sequence
RECURSIVE Payload(_)
Payload(msgs) ==
  IF msgs = <<>> THEN <<>>
  ELSE (IF Head(msgs).kind = "Data" THEN Head(msgs).data ELSE <<>>)
       \o Payload(Tail(msgs))

DataMsgs(msgs) == SelectSeq(msgs, LAMBDA m : m.kind = "Data")

(***************************************************************************)
(* Token store (TokenRepo) and AuthInterceptor.                            *)
(***************************************************************************)
Tokens == {"t1", "t2"}

\* states of the token file
TokenFiles ==
  {[exists |-> FALSE, data |-> ""], [exists |-> TRUE, data |-> ""]}
  \cup {[exists |-> TRUE, data |-> t] : t \in Tokens}

\* outcomes of os.ReadFile on the token file
ReadFileOutcomes(tf) ==
  (IF tf.exists THEN {"ok"} ELSE {"ErrNotExist"}) \cup {"EACCES"}

\* TokenRepo.GetToken, given the outcome of os.ReadFile
GetToken(tf, rf) ==
  IF rf # "ok"
  THEN IF rf = "ErrNotExist"
       THEN [token |-> "", err |-> <<"ErrTokenNotFound">>]
       ELSE [token |-> "", err |-> Wrap("failed to read token", <<rf>>)]
  ELSE IF Len(tf.data) = 0
       THEN [token |-> "", err |-> <<"ErrTokenNotFound">>]
       ELSE [token |-> tf.data, err |-> NoErr]

\* variant: the token is sent without the Bearer scheme
injectAuthMetadataNoScheme(tf, rf) ==
  LET r == GetToken(tf, rf)
  IN IF r.err # NoErr
     THEN [md |-> <<>>, err |-> Wrap("failed to get token", r.err)]
     ELSE [md |-> << <<"authorization", r.token>> >>, err |-> NoErr]

\* AuthInterceptor.injectAuthMetadata: the outgoing metadata, or an error
injectAuthMetadata(tf, rf) ==
  LET r == GetToken(tf, rf)
  IN IF r.err # NoErr
     THEN [md |-> <<>>, err |-> Wrap("failed to get token", r.err)]
     ELSE [md |-> << <<"authorization", "Bearer " \o r.token>> >>,
           err |-> NoErr]

(***************************************************************************)
(* The byte source of a create: an io.Reader over the content s, pos bytes *)
(* of which were already returned.  A Read into a buffer of cap bytes      *)
(* returns any n the io.Reader contract allows: a short read, (0, nil),    *)
(* the last bytes together with io.EOF or io.EOF on its own, or an error.  *)
(***************************************************************************)
ReadOutcomes(s, pos, cap) ==
  {o \in [n : 0..Min(cap, Len(s) - pos), err : {"nil", "EOF", "ReadErr"}] :
     o.err = "EOF" => pos + o.n = Len(s)}

\* the bytes buf[:n] of a Read that returned n at position pos
ReadBytes(s, pos, n) == SubSeq(s, pos + 1, pos + n)

\* errors a stream.Send, a CloseAndRecv or opening a call can fail with
SendErrs == {"EOF", "Unavailable"}

(***************************************************************************)
(* SecretService.CreateSecret: the switch on secret.Info.Type.             *)
(***************************************************************************)
\* variant: the File case sits in the buffered branch
CreateSecretBranchFileBuffered(type) ==
  CASE type \in {CredentialsSecretType, PaymentCardSecretType,
                 FileSecretType} -> "buffered"
    [] type \in {TextSecretType} -> "streamed"
    [] OTHER -> "none"

\* variant: every type is read whole before it is sent
CreateSecretBranchAllBuffered(type) ==
  CASE type \in DomainSecretTypes -> "buffered"
    [] OTHER -> "none"

CreateSecretBranch(type) ==
  CASE type \in {CredentialsSecretType, PaymentCardSecretType} -> "buffered"
    [] type \in {FileSecretType, TextSecretType} -> "streamed"
    [] OTHER -> "none"

(***************************************************************************)
(* SecretClient.sendDataChunks: one iteration of the loop, given the       *)
(* result (n, err) of reader.Read(buf) and the bytes buf[:n].              *)
(***************************************************************************)
\* variant: the n > 0 test is missing
sendDataChunksIterNoGuard(n, err, bytes) ==
  IF err = "EOF" THEN [do |-> "break", msgs |-> <<>>]
  ELSE IF err # "nil" THEN [do |-> "return", msgs |-> <<>>]
  ELSE [do |-> "send", msgs |-> <<DataMsg(bytes)>>]

\* variant: a read error ends the loop as end-of-input does
sendDataChunksIterBreakOnError(n, err, bytes) ==
  IF err # "nil" THEN [do |-> "break", msgs |-> <<>>]
  ELSE IF n > 0 THEN [do |-> "send", msgs |-> <<DataMsg(bytes)>>]
  ELSE [do |-> "continue", msgs |-> <<>>]

\* variant: a read of no bytes ends the loop as end-of-input does
sendDataChunksIterBreakOnEmpty(n, err, bytes) ==
  IF err = "EOF" THEN [do |-> "break", msgs |-> <<>>]
  ELSE IF err # "nil" THEN [do |-> "return", msgs |-> <<>>]
  ELSE IF n > 0 THEN [do |-> "send", msgs |-> <<DataMsg(bytes)>>]
  ELSE [do |-> "break", msgs |-> <<>>]

sendDataChunksIter(n, err, bytes) ==
  IF err = "EOF" THEN [do |-> "break", msgs |-> <<>>]
  ELSE IF err # "nil" THEN [do |-> "return", msgs |-> <<>>]
  ELSE IF n > 0 THEN [do |-> "send", msgs |-> <<DataMsg(bytes)>>]
  ELSE [do |-> "continue", msgs |-> <<>>]

\* variant: a buffer of twice the chunk size
bufLenDouble == 2 * chunkSize

\* buf := make([]byte, chunkSize)
bufLen == chunkSize

(***************************************************************************)
(* secretStreamReader.Read.                                                *)
(***************************************************************************)
\* variant: off by one, the last byte of a chunk is not seen
HasBufferedOffByOne(buffer, index) == index + 1 < Len(buffer)

\* line 32: the buffer holds unconsumed bytes
HasBuffered(buffer, index) == index < Len(buffer)

\* variant: the index moves past the whole buffer instead of by n
ReadBufferedDropsRest(buffer, index, p) ==
  LET n == Min(p, Len(buffer) - index)
  IN [n |-> n, frag |-> SubSeq(buffer, index + 1, index + n),
      index |-> Len(buffer)]

\* lines 33-35: serve the call from the unconsumed bytes of the buffer
ReadBuffered(buffer, index, p) ==
  LET n == Min(p, Len(buffer) - index)
  IN [n |-> n, frag |-> SubSeq(buffer, index + 1, index + n),
      index |-> index + n]

\* response.GetData() is nil for a message that is not the Data variant
\* (a Data message decoded from the wire carries a non-nil, possibly empty,
\* slice); the variant takes the payload of any message
IsDataChunkAny(m) == TRUE

IsDataChunk(m) == m.kind = "Data"

\* variant: every error of stream.Recv is taken for the end of the stream
RecvErrAllEOF(ek) == <<"EOF">>

\* lines 40-45: what Read returns when stream.Recv fails with ek; io.EOF is
\* handed on as it is, any other error is wrapped
RecvErr(ek) ==
  IF ErrorsIs(<<ek>>, "EOF") THEN <<"EOF">>
  ELSE Wrap("stream read failed", <<ek>>)

\* The whole call: inc is what the stream still has to deliver, ek how it
\* ends (io.EOF or a status); recvs counts the stream.Recv calls made and
\* got the messages they returned.
RECURSIVE Read(_, _, _, _, _)
Read(buffer, index, inc, ek, p) ==
  IF HasBuffered(buffer, index)
  THEN LET b == ReadBuffered(buffer, index, p)
       IN [n |-> b.n, frag |-> b.frag, err |-> NoErr, buffer |-> buffer,
           index |-> b.index, incoming |-> inc, recvs |-> 0, got |-> <<>>]
  ELSE IF inc = <<>>
  THEN [n |-> 0, frag |-> <<>>, err |-> RecvErr(ek),
        buffer |-> buffer, index |-> index, incoming |-> inc,
        recvs |-> 1, got |-> <<>>]
  ELSE IF ~IsDataChunk(Head(inc))
  THEN [n |-> 0, frag |-> <<>>, err |-> <<"expected data chunk">>,
        buffer |-> buffer, index |-> index, incoming |-> Tail(inc),
        recvs |-> 1, got |-> <<Head(inc)>>]
  ELSE LET r == Read(Head(inc).data, 0, Tail(inc), ek, p)
       IN [r EXCEPT !.recvs = r.recvs + 1, !.got = <<Head(inc)>> \o r.got]

(***************************************************************************)
(* Error wrapping of the facade (SecretClient) and of SecretService.       *)
(***************************************************************************)
StreamMethods ==
  {"CreateSecretStream", "GetLatestSecretStream", "GetSecretStreamByVersion"}

UnaryMethods ==
  {"CreateSecret", "ListSecrets", "GetLatestSecret", "GetSecretByVersion",
   "DeleteSecret"}

\* what a SecretClient method returns when its stub call fails with err
ClientCallErr(method, err) ==
  IF method = "CreateSecret" THEN err ELSE Wrap("client." \o method, err)

\* what the SecretService method returns when the facade fails with err
ServiceErr(method, err) ==
  CASE method = "CreateSecret" ->
         Wrap("application.CreateSecret: failed to create secret", err)
    [] method = "CreateSecretStream" ->
         Wrap("application.CreateSecret: failed to create stream secret", err)
    [] OTHER -> Wrap("application." \o method, err)

\* the first-chunk error of the two streamed gets
RecvFirstErr(method, err) ==
  IF method = "GetLatestSecretStream"
  THEN Wrap("failed to receive first chunk with metadata", err)
  ELSE Wrap("failed to recieve metadata", err)

(***************************************************************************)
(* AuthClient, AuthService and TokenRepo.SaveToken.  NewAuthClient installs *)
(* no interceptor: Register and Login carry no token.                      *)
(***************************************************************************)
AuthMethods == {"Register", "Login"}

\* status codes the backend answers Register / Login with
AuthStatusCodes ==
  {"AlreadyExists", "InvalidArgument", "NotFound", "Unavailable"}

\* responses of the backend: a token (possibly empty), a status, or an error
\* status.FromError does not recognise
AuthResponses ==
  [status : {"OK"}, token : Tokens \cup {""}]
  \cup [status : AuthStatusCodes \cup {"NonStatus"}, token : {""}]

\* variant: the empty-token check is missing
AuthClientResultAcceptsEmpty(resp, mapped) ==
  CASE resp.status = "OK" -> [token |-> resp.token, err |-> NoErr]
    [] resp.status = "AlreadyExists" /\ resp.status \in mapped ->
         [token |-> "", err |-> <<"ErrLoginAlreayExists">>]
    [] resp.status = "InvalidArgument" /\ resp.status \in mapped ->
         [token |-> "", err |-> <<"ErrInvalidCredentials">>]
    [] OTHER ->
         [token |-> "", err |-> Wrap("registration failed", <<resp.status>>)]

\* the switch on st.Code() and the empty-token check shared by
\* AuthClient.Register and AuthClient.Login; mapped is the set of codes the
\* method translates to domain errors
AuthClientResult(resp, mapped) ==
  CASE resp.status = "OK" /\ resp.token = "" ->
         [token |-> "", err |-> <<"received empty token">>]
    [] resp.status = "OK" /\ resp.token # "" ->
         [token |-> resp.token, err |-> NoErr]
    [] resp.status = "NonStatus" ->
         [token |-> "",
          err |-> Wrap("registration failed: can't parse gRPC response code",
                       <<resp.status>>)]
    [] resp.status = "AlreadyExists" /\ resp.status \in mapped ->
         [token |-> "", err |-> <<"ErrLoginAlreayExists">>]
    [] resp.status = "InvalidArgument" /\ resp.status \in mapped ->
         [token |-> "", err |-> <<"ErrInvalidCredentials">>]
    [] OTHER ->
         [token |-> "", err |-> Wrap("registration failed", <<resp.status>>)]

AuthClientRegister(resp) == AuthClientResult(resp, {"AlreadyExists"})

AuthClientLogin(resp) ==
  AuthClientResult(resp, {"AlreadyExists", "InvalidArgument"})

\* variant: the error of the client is formatted into the message, not
\* wrapped
AuthServiceErrOpaque(method, err) == <<"application." \o method>>

\* fmt.Errorf("application.Register: %w", err)
AuthServiceErr(method, err) == Wrap("application." \o method, err)

\* variant: SaveToken is called whatever the client returned
AuthServiceCallAlwaysSaves(method, r) ==
  [save |-> TRUE, token |-> r.token, err |-> NoErr]

\* AuthService.Register / Login after the client returned r: return the
\* wrapped error, or go on to SaveToken
AuthServiceCall(method, r) ==
  IF r.err # NoErr
  THEN [save |-> FALSE, token |-> "", err |-> AuthServiceErr(method, r.err)]
  ELSE [save |-> TRUE, token |-> r.token, err |-> NoErr]

\* outcomes of the file system in SaveToken
SaveTokenOutcomes == {"ok", "MkdirErr", "WriteErr"}

\* variant: success is reported and the file is left as it was
SaveTokenKeepsFile(tf, token, o) == [files |-> {tf}, err |-> NoErr]

\* TokenRepo.SaveToken: the error returned and the states the token file can
\* be left in (os.WriteFile truncates before it writes)
SaveToken(tf, token, o) ==
  CASE token = "" ->
         [files |-> {tf}, err |-> <<"cannot save empty token">>]
    [] token # "" /\ o = "MkdirErr" ->
         [files |-> {tf},
          err |-> Wrap("failed to ensure token directory exists", <<o>>)]
    [] token # "" /\ o = "WriteErr" ->
         [files |-> {tf, [exists |-> TRUE, data |-> ""]},
          err |-> Wrap("failed to write token", <<o>>)]
    [] OTHER ->
         [files |-> {[exists |-> TRUE, data |-> token]}, err |-> NoErr]

(***************************************************************************)
(* The commands of the CLI.                                                *)
(***************************************************************************)
BufferedGetCmds == {"get-credentials", "get-paymentcard"}
StreamedGetCmds == {"get-text", "get-file-secret"}
GetCmds == BufferedGetCmds \cup StreamedGetCmds

\* variant: a negative version also selects the latest
IsLatestNonPositive(version) == version <= 0

\* if version == 0
IsLatest(version) == version = 0

\* the SecretService method a get command calls
GetMethod(cmd, version) ==
  IF cmd \in BufferedGetCmds
  THEN IF IsLatest(version) THEN "GetLatestSecret" ELSE "GetSecretByVersion"
  ELSE IF IsLatest(version) THEN "GetLatestSecretStream"
       ELSE "GetSecretStreamByVersion"

\* strings.ToLower on the answers the model gives
ToLower(str) ==
  CASE str = "Y" -> "y"
    [] str = "N" -> "n"
    [] str = "YES" -> "yes"
    [] str = " Y" -> " y"
    [] OTHER -> str

\* variant: any answer that lower-cases to y or yes confirms
ConfirmedAlsoYes(answer) == ToLower(answer) \in {"y", "yes"}

\* the negation of: strings.ToLower(scanner.Text()) != "y"
Confirmed(answer) == ToLower(answer) = "y"

\* the error RunE returns when the service call failed with err
CmdErr(cmd, name, err) ==
  CASE cmd = "register" ->
         IF ErrorsIs(err, "ErrLoginAlreayExists")
         THEN <<"ErrLoginAlreayExists">>
         ELSE <<"failed to register">>
    [] cmd = "login" ->
         IF ErrorsIs(err, "ErrInvalidCredentials")
         THEN <<"ErrInvalidCredentials">>
         ELSE IF ErrorsIs(err, "ErrUserNotFound")
         THEN <<"ErrUserNotFound">>
         ELSE <<"failed to log in">>
    [] cmd = "get-credentials" -> <<"failed to retrieve credentials">>
    [] cmd = "get-paymentcard" -> <<"failed to retrieve card">>
    [] cmd = "get-text" -> <<"failed to retrieve text">>
    [] cmd = "get-file-secret" -> <<"failed to retrieve file">>
    [] cmd = "create-text" -> <<"failed to store text">>
    [] OTHER -> <<"failed to delete secret '" \o name \o "'">>

\* the line RunE prints when the service call succeeded
CmdOk(cmd, name) ==
  CASE cmd = "register" -> <<"Successfully registered user">>
    [] cmd = "login" -> <<"Successfully logged in">>
    [] cmd = "delete" -> <<"Successfully deleted '" \o name \o "'">>
    [] OTHER -> <<>>

(***************************************************************************)
(* create-text: the producer goroutine scans standard input line by line   *)
(* and writes each line and a newline to an io.Pipe; the uploader reads    *)
(* the other end.  A line is the sequence of its characters.               *)
(***************************************************************************)
LF == "\n"

\* strings.TrimSpace, for the white space the model's lines hold
RECURSIVE TrimSpace(_)
TrimSpace(line) ==
  IF line = <<>> THEN line
  ELSE IF Head(line) = " " THEN TrimSpace(Tail(line))
  ELSE IF line[Len(line)] = " "
  THEN TrimSpace(SubSeq(line, 1, Len(line) - 1))
  ELSE line

\* strings.TrimSpace(line) == "end"
IsSentinel(line) == TrimSpace(line) = <<"e", "n", "d">>

\* bufio.Scanner gives up (Scan returns false, Err is ErrTooLong) on a line
\* that fills its buffer before the newline
TooLong(line) == Len(line) >= MaxScanTokenSize

\* the lines of standard input the model types
Lines ==
  {<<>>, <<"a", "b">>, <<"e", "n", "d">>, <<" ", "e", "n", "d", " ">>,
   <<"e", "n", "d", "a">>, [i \in 1..MaxScanTokenSize |-> "a"]}

Inputs == SeqsUpTo(Lines, MaxLines)

\* pr.Read(buf) on the pipe: the bytes of the pending Write that fit, io.EOF
\* once the writer closed; with neither, the call blocks
PipeRead(data, closed, cap) ==
  IF data # <<>>
  THEN {[n |-> Min(cap, Len(data)), err |-> "nil",
         bytes |-> SubSeq(data, 1, Min(cap, Len(data)))]}
  ELSE IF closed THEN {[n |-> 0, err |-> "EOF", bytes |-> <<>>]}
  ELSE {}

(***************************************************************************)
(* Results of the transport, which fails every call once the context of    *)
(* the operation is cancelled.                                             *)
(***************************************************************************)
\* opening a call or stream, CloseAndRecv
CallResults(c) == IF c THEN {"Canceled"} ELSE {"ok"} \cup StatusCodes

\* stream.Send
SendResults(c) == IF c THEN {"EOF", "Canceled"} ELSE {"ok"} \cup SendErrs

(***************************************************************************)
(* State.                                                                  *)
(***************************************************************************)
VARIABLES
  tokenFile,   \* the token file of TokenRepo
  pc,          \* position of the operation in progress
  op,          \* the operation: [method, info, name, version]
  tokenReads,  \* GetToken calls made by the operation
  readFile,    \* outcome of the os.ReadFile of its GetToken call
  wire,        \* calls and streams the operation dispatched to the transport:
               \* [method, md, reads, req]
  sent,        \* messages sent on the create stream
  closed,      \* CloseAndRecv was called on the create stream
  src,         \* content of the byte source of a create
  srcPos,      \* bytes of it returned by Read so far
  acc,         \* bytes gathered by io.ReadAll in SecretService.CreateSecret
  nReads,      \* reads of sendDataChunks that returned n > 0 and a nil error
  facade,      \* create calls SecretService.CreateSecret made on its client
  incoming,    \* messages the get stream still has to deliver
  endKind,     \* how the get stream ends: io.EOF or a status code
  recvd,       \* messages stream.Recv returned so far
  buffer,      \* secretStreamReader.buffer
  index,       \* secretStreamReader.index
  out,         \* concatenation of the fragments Read handed to the caller
  lastRead,    \* the last Read call: [called, p, n, frag, err, recvs, got,
               \* avail]: its len(p), its results, the bytes it put in p,
               \* the stream.Recv calls it made and what they returned, and
               \* the unconsumed bytes the buffer held when it was called
  result,      \* what a streamed get returned: [reader, info]
  echo,        \* the get stream replays the messages of the create before it
  ret,         \* outcome of the operation: [st, err]
  cancelled,   \* the context of the operation was cancelled
  svc,         \* SecretService reads and deletes invoked: [method, name,
               \* version]
  cli,         \* the CLI command that runs: [cmd, name, version, answer]
  cliRet,      \* what its RunE returned: [st, err]
  cliOut,      \* the lines it printed
  authRes,     \* response of the backend to Register / Login:
               \* [status, token]
  saves,       \* SaveToken calls made by the operation
  tokenBefore, \* the token file when the operation started
  stdin,       \* create-text: lines of standard input not yet scanned
  input,       \* create-text: all lines of standard input
  prod,        \* create-text: position of the producer goroutine
  pipeData,    \* create-text: bytes of the pending pw.Write not yet read
  pipeClosed   \* create-text: pw.Close was called

vars ==
  <<tokenFile, pc, op, tokenReads, readFile, wire, sent, closed, src, srcPos,
    acc, nReads, facade, incoming, endKind, recvd, buffer, index, out,
    lastRead, result, echo, ret, cancelled, svc, cli, cliRet, cliOut,
    authRes, saves, tokenBefore, stdin, input, prod, pipeData, pipeClosed>>

cliVars == <<cli, cliRet, cliOut>>
authVars == <<authRes, saves, tokenBefore>>
pipeVars == <<stdin, input, prod, pipeData, pipeClosed>>

upVars == <<sent, closed, src, srcPos, acc, nReads, facade>>
downVars ==
  <<incoming, endKind, recvd, buffer, index, out, lastRead, result>>

NoInfo == [Name |-> "", Type |-> "", Metadata |-> "", Version |-> 0]
NoOp == [method |-> "none", info |-> NoInfo, name |-> "", version |-> 0]
NoRead ==
  [called |-> FALSE, p |-> 0, n |-> 0, frag |-> <<>>, err |-> NoErr,
   recvs |-> 0, got |-> <<>>, avail |-> 0]
NoResult == [reader |-> FALSE, info |-> NoInfo]
NoRet == [st |-> "none", err |-> NoErr]
Ok == [st |-> "ok", err |-> NoErr]
Failed(err) == [st |-> "err", err |-> err]
NoCli == [cmd |-> "none", name |-> "", version |-> 0, answer |-> ""]
NoAuthRes == [status |-> "none", token |-> ""]

\* the state of a process that has not started an operation
Fresh ==
  /\ pc = "idle"
  /\ op = NoOp
  /\ tokenReads = 0
  /\ readFile = "none"
  /\ wire = <<>>
  /\ sent = <<>>
  /\ closed = FALSE
  /\ src = <<>>
  /\ srcPos = 0
  /\ acc = <<>>
  /\ nReads = 0
  /\ facade = <<>>
  /\ incoming = <<>>
  /\ endKind = "EOF"
  /\ recvd = <<>>
  /\ buffer = <<>>
  /\ index = 0
  /\ out = <<>>
  /\ lastRead = NoRead
  /\ result = NoResult
  /\ echo = FALSE
  /\ ret = NoRet
  /\ cancelled = FALSE
  /\ svc = <<>>
  /\ cli = NoCli
  /\ cliRet = NoRet
  /\ cliOut = <<>>
  /\ authRes = NoAuthRes
  /\ saves = 0
  /\ stdin = <<>>
  /\ input = <<>>
  /\ prod = "none"
  /\ pipeData = <<>>
  /\ pipeClosed = FALSE

Init ==
  /\ tokenFile \in TokenFiles
  /\ tokenBefore = tokenFile
  /\ Fresh

(***************************************************************************)
(* Inputs of the environment.  Neither the upload nor the reader looks at  *)
(* the value of a byte, so the content of a source or of a stream is taken *)
(* with every byte distinct: byte i of the source, or of the concatenated *)
(* payloads, is i.  Any loss, duplication or reordering shows.             *)
(***************************************************************************)
Sources == {[i \in 1..k |-> i] : k \in 0..MaxLen}

ServerInfo ==
  [Name |-> "n", Type |-> "TEXT", Metadata |-> "m", Version |-> 1]

\* the messages of a get stream, given for each the length of its Data
\* payload, or -1 for an Info message; base bytes precede it on the stream
RECURSIVE Render(_, _)
Render(ks, base) ==
  IF ks = <<>> THEN <<>>
  ELSE IF Head(ks) < 0
  THEN <<InfoMsg(ServerInfo)>> \o Render(Tail(ks), base)
  ELSE <<DataMsg([i \in 1..Head(ks) |-> base + i])>>
       \o Render(Tail(ks), base + Head(ks))

MsgSeqs == {Render(ks, 0) : ks \in SeqsUpTo(-1..MaxPayload, MaxMsgs)}

StreamEnds == {"EOF", "Unavailable", "Canceled"}

\* the type the backend holds for the secret asked for: the latest version
\* is a text, version 1 a file, and any other version carries a number the
\* wire enumeration has no name for
BackendType(version) ==
  CASE version = 0 -> "TEXT"
    [] version = 1 -> "BINARY"
    [] OTHER -> "7"

\* the messages msgs with the Info messages carrying the wire type stype
WithType(msgs, stype) ==
  [i \in 1..Len(msgs) |->
     IF msgs[i].kind = "Info"
     THEN InfoMsg([msgs[i].info EXCEPT !.Type = stype])
     ELSE msgs[i]]

Names == {"n"}
Versions == {1, 2}

(***************************************************************************)
(* SecretService.CreateSecret(ctx, secret, contentReader).                 *)
(***************************************************************************)
\* entry: the switch on the type
CreateSecret(info, s) ==
  /\ pc = "idle"
  /\ src' = s
  /\ LET br == CreateSecretBranch(info.Type)
     IN CASE br = "buffered" ->
               /\ pc' = "readAll"
               /\ op' = [NoOp EXCEPT !.info = info]
               /\ UNCHANGED <<facade, ret>>
          [] br = "streamed" ->
               /\ pc' = "call"
               /\ op' = [NoOp EXCEPT !.info = info,
                                     !.method = "CreateSecretStream"]
               /\ facade' = Append(facade, [fn |-> "CreateSecretStream",
                                            data |-> <<>>, pos |-> srcPos])
               /\ UNCHANGED ret
          [] OTHER ->
               /\ pc' = "done"
               /\ op' = [NoOp EXCEPT !.info = info]
               /\ ret' = Ok
               /\ UNCHANGED facade
  /\ UNCHANGED <<tokenFile, tokenReads, readFile, wire, sent, closed, srcPos,
                 acc, nReads, downVars, echo, cancelled, svc, authVars>>

\* io.ReadAll(contentReader), one Read at a time, then client.CreateSecret
ReadAllStep ==
  /\ pc = "readAll"
  /\ \E o \in ReadOutcomes(src, srcPos, Len(src) + 1) :
       /\ srcPos' = srcPos + o.n
       /\ acc' = acc \o ReadBytes(src, srcPos, o.n)
       /\ CASE o.err = "nil" -> UNCHANGED <<pc, op, facade, ret>>
            [] o.err = "EOF" ->
                 /\ pc' = "call"
                 /\ op' = [op EXCEPT !.method = "CreateSecret"]
                 /\ facade' = Append(facade, [fn |-> "CreateSecret",
                                              data |-> acc', pos |-> srcPos'])
                 /\ UNCHANGED ret
            [] OTHER ->
                 /\ pc' = "done"
                 /\ ret' = Failed(Wrap(
                     "application.CreateSecret: failed to read secret content",
                     <<o.err>>))
                 /\ UNCHANGED <<op, facade>>
  /\ UNCHANGED <<tokenFile, tokenReads, readFile, wire, sent, closed, src,
                 nReads, downVars, echo, cancelled, svc, cliVars, authVars,
                 pipeVars>>

(***************************************************************************)
(* The other operations of SecretService: each forwards to the method of   *)
(* the same name of SecretClient.                                          *)
(***************************************************************************)
Forward(method, name, version) ==
  /\ pc = "idle"
  /\ pc' = "call"
  /\ op' = [NoOp EXCEPT !.method = method, !.name = name,
                        !.version = version]
  /\ svc' = Append(svc, [method |-> method, name |-> name,
                         version |-> version])
  /\ UNCHANGED <<tokenFile, tokenReads, readFile, wire, upVars, downVars,
                 echo, ret, cancelled, authVars, pipeVars>>

\* the methods called directly, by a caller that is not a command of the CLI
ListSecrets == Forward("ListSecrets", "", 0) /\ UNCHANGED cliVars
GetLatestSecret ==
  \E n \in Names : Forward("GetLatestSecret", n, 0) /\ UNCHANGED cliVars
GetSecretByVersion ==
  \E n \in Names, v \in Versions :
    Forward("GetSecretByVersion", n, v) /\ UNCHANGED cliVars
GetLatestSecretStream ==
  \E n \in Names :
    Forward("GetLatestSecretStream", n, 0) /\ UNCHANGED cliVars
GetSecretStreamByVersion ==
  \E n \in Names, v \in Versions :
    Forward("GetSecretStreamByVersion", n, v) /\ UNCHANGED cliVars
DeleteSecret ==
  \E n \in Names : Forward("DeleteSecret", n, 0) /\ UNCHANGED cliVars

(***************************************************************************)
(* The stub call of a SecretClient method.  NewSecretClient installs       *)
(* UnaryInterceptor and StreamInterceptor on the connection, so every stub *)
(* call runs the interceptor, which calls the invoker / streamer (the      *)
(* transport) only after injectAuthMetadata succeeded.                     *)
(***************************************************************************)
\* the request message a SecretClient method hands to its stub: o is the
\* operation and data the secret.Data of a buffered create
Request(o, data) ==
  CASE o.method = "CreateSecret" ->
         [Info |-> mapDomainSecretInfoToProtoCreateSecretInfoRequest(o.info),
          Data |-> data]
    [] o.method \in {"GetLatestSecret", "GetLatestSecretStream",
                     "DeleteSecret"} ->
         [Name |-> o.name]
    [] o.method \in {"GetSecretByVersion", "GetSecretStreamByVersion"} ->
         [Name |-> o.name, Version |-> o.version]
    [] OTHER -> <<>>

\* variant: the invoker / streamer is called although the injection failed
InterceptorIgnoresErr(tf, rf) ==
  LET a == injectAuthMetadata(tf, rf)
  IN [dispatch |-> TRUE, md |-> a.md, err |-> NoErr]

Interceptor(tf, rf) ==
  LET a == injectAuthMetadata(tf, rf)
  IN IF a.err # NoErr
     THEN [dispatch |-> FALSE, md |-> <<>>, err |-> a.err]
     ELSE [dispatch |-> TRUE, md |-> a.md, err |-> NoErr]

\* variant: a failed operation is issued again
FailAndRetry(err) ==
  /\ pc' = "call"
  /\ ret' = Failed(ServiceErr(op.method, err))

\* the operation fails with the facade error err
Fail(err) ==
  /\ pc' = "done"
  /\ ret' = Failed(ServiceErr(op.method, err))

\* the Info message the backend answers a streamed get with, for a secret
\* created with the Info message m
EchoInfo(m) ==
  InfoMsg([Name |-> m.info.Name, Type |-> m.info.Type,
           Metadata |-> m.info.Metadata, Version |-> 1])

Call ==
  /\ pc = "call"
  /\ \E rf \in ReadFileOutcomes(tokenFile), res \in CallResults(cancelled) :
       LET i == Interceptor(tokenFile, rf)
       IN /\ tokenReads' = tokenReads + 1
          /\ readFile' = rf
          /\ wire' = IF i.dispatch
                     THEN Append(wire, [method |-> op.method, md |-> i.md,
                                        reads |-> tokenReads',
                                        req |-> Request(op, acc)])
                     ELSE wire
          /\ CASE i.err # NoErr ->
                    /\ Fail(ClientCallErr(op.method, i.err))
                    /\ UNCHANGED <<incoming, endKind>>
               [] i.err = NoErr /\ res # "ok" ->
                    /\ Fail(ClientCallErr(op.method, <<res>>))
                    /\ UNCHANGED <<incoming, endKind>>
               [] i.err = NoErr /\ res = "ok"
                    /\ op.method \in UnaryMethods ->
                    /\ pc' = "done"
                    /\ ret' = Ok
                    /\ UNCHANGED <<incoming, endKind>>
               [] i.err = NoErr /\ res = "ok"
                    /\ op.method = "CreateSecretStream" ->
                    /\ pc' = "sendInfo"
                    /\ UNCHANGED <<ret, incoming, endKind>>
               [] OTHER ->
                    /\ pc' = "recvFirst"
                    /\ IF echo
                       THEN /\ incoming' = <<EchoInfo(sent[1])>>
                                             \o DataMsgs(sent)
                            /\ endKind' = "EOF"
                       ELSE /\ incoming' \in
                                 {WithType(ms, BackendType(op.version)) :
                                    ms \in MsgSeqs}
                            /\ endKind' \in StreamEnds
                    /\ UNCHANGED ret
  /\ UNCHANGED <<tokenFile, op, upVars, recvd, buffer, index, out, lastRead,
                 result, echo, cancelled, svc, cliVars, authVars, pipeVars>>

(***************************************************************************)
(* SecretClient.CreateSecretStream after the stream was opened.            *)
(***************************************************************************)
sendMetadataChunk(info) ==
  InfoMsg(mapDomainSecretInfoToProtoCreateSecretInfoRequest(info))

SendInfo ==
  /\ pc = "sendInfo"
  /\ \E res \in SendResults(cancelled) :
       IF res = "ok"
       THEN /\ sent' = Append(sent, sendMetadataChunk(op.info))
            /\ pc' = "sendData"
            /\ UNCHANGED ret
       ELSE /\ Fail(Wrap("failed to send metadata chunk", <<res>>))
            /\ UNCHANGED sent
  /\ UNCHANGED <<tokenFile, op, tokenReads, readFile, wire, closed, src,
                 srcPos, acc, nReads, facade, downVars, echo, cancelled, svc,
                 cliVars, authVars, pipeVars>>

\* reader.Read(buf) on the source of the create, with the bytes buf[:n]: the
\* pipe of create-text, or else any io.Reader
SourceReads(cap) ==
  IF prod = "none"
  THEN {[n |-> o.n, err |-> o.err, bytes |-> ReadBytes(src, srcPos, o.n)] :
          o \in ReadOutcomes(src, srcPos, cap)}
  ELSE PipeRead(pipeData, pipeClosed, cap)

\* one iteration of the loop of sendDataChunks: reader.Read, then stream.Send
SendData ==
  /\ pc = "sendData"
  /\ \E o \in SourceReads(bufLen), res \in SendResults(cancelled) :
       LET it == sendDataChunksIter(o.n, o.err, o.bytes)
       IN /\ srcPos' = srcPos + o.n
          /\ IF prod = "none"
             THEN UNCHANGED <<src, pipeData>>
             ELSE /\ src' = src \o o.bytes
                  /\ pipeData' = SubSeq(pipeData, o.n + 1, Len(pipeData))
          /\ nReads' = IF o.n > 0 /\ o.err = "nil" THEN nReads + 1
                       ELSE nReads
          /\ CASE it.do = "break" ->
                    /\ pc' = "closeRecv"
                    /\ UNCHANGED <<sent, ret>>
               [] it.do = "return" ->
                    /\ Fail(Wrap("failed to send data chunks", <<o.err>>))
                    /\ UNCHANGED sent
               [] it.do = "send" /\ res = "ok" ->
                    /\ sent' = sent \o it.msgs
                    /\ UNCHANGED <<pc, ret>>
               [] it.do = "send" /\ res # "ok" ->
                    /\ Fail(Wrap("failed to send data chunks", <<res>>))
                    /\ UNCHANGED sent
               [] OTHER -> UNCHANGED <<pc, sent, ret>>
  /\ UNCHANGED <<tokenFile, op, tokenReads, readFile, wire, closed, acc,
                 facade, downVars, echo, cancelled, svc, cliVars, authVars,
                 stdin, input, prod, pipeClosed>>

\* stream.CloseAndRecv
CloseAndRecv ==
  /\ pc = "closeRecv"
  /\ closed' = TRUE
  /\ \E res \in CallResults(cancelled) :
       IF res = "ok"
       THEN pc' = "done" /\ ret' = Ok
       ELSE Fail(Wrap(
              "failed to close stream and recieve server's response",
              <<res>>))
  /\ UNCHANGED <<tokenFile, op, tokenReads, readFile, wire, sent, src,
                 srcPos, acc, nReads, facade, downVars, echo, cancelled, svc,
                 cliVars, authVars, pipeVars>>

(***************************************************************************)
(* GetLatestSecretStream / GetSecretStreamByVersion after the stream was   *)
(* opened: the first stream.Recv and the check of its message.             *)
(***************************************************************************)
\* variant: the nil check of firstChunk.GetInfo() is missing
FirstChunkNoInfoCheck(method, recvErr, m) ==
  IF recvErr # NoErr
  THEN [reader |-> FALSE, info |-> NoInfo,
        err |-> RecvFirstErr(method, recvErr)]
  ELSE [reader |-> TRUE,
        info |-> IF m.kind = "Info"
                 THEN mapProtoGetSecretInfoResponseToDomainSecretInfo(m.info)
                 ELSE NoInfo,
        err |-> NoErr]

FirstChunk(method, recvErr, m) ==
  IF recvErr # NoErr
  THEN [reader |-> FALSE, info |-> NoInfo,
        err |-> RecvFirstErr(method, recvErr)]
  ELSE IF m.kind # "Info"
  THEN [reader |-> FALSE, info |-> NoInfo,
        err |-> <<"first chunk must contain secret info">>]
  ELSE [reader |-> TRUE,
        info |-> mapProtoGetSecretInfoResponseToDomainSecretInfo(m.info),
        err |-> NoErr]

RecvFirst ==
  /\ pc = "recvFirst"
  /\ LET none == incoming = <<>>
         m == IF none THEN DataMsg(<<>>) ELSE Head(incoming)
         f == FirstChunk(op.method, IF none THEN <<endKind>> ELSE NoErr, m)
     IN /\ incoming' = IF none THEN incoming ELSE Tail(incoming)
        /\ recvd' = IF none THEN recvd ELSE Append(recvd, m)
        /\ result' = [reader |-> f.reader, info |-> f.info]
        /\ IF f.err # NoErr
           THEN Fail(f.err)
           ELSE pc' = "reading" /\ ret' = Ok
  /\ UNCHANGED <<tokenFile, op, tokenReads, readFile, wire, upVars, endKind,
                 buffer, index, out, lastRead, echo, cancelled, svc, cliVars,
                 authVars, pipeVars>>

\* the caller of the returned reader calls Read(p) with len(p) = p
ReaderRead(p) ==
  /\ pc = "reading"
  /\ LET r == Read(buffer, index, incoming, endKind, p)
     IN /\ buffer' = r.buffer
        /\ index' = r.index
        /\ incoming' = r.incoming
        /\ recvd' = recvd \o r.got
        /\ out' = out \o r.frag
        /\ lastRead' = [called |-> TRUE, p |-> p, n |-> r.n, frag |-> r.frag,
                        err |-> r.err, recvs |-> r.recvs, got |-> r.got,
                        avail |-> Len(buffer) - index]
  /\ UNCHANGED <<tokenFile, pc, op, tokenReads, readFile, wire, upVars,
                 endKind, result, echo, ret, cancelled, svc, cliVars,
                 authVars, pipeVars>>

\* after a streamed create succeeded, a streamed get of the same secret:
\* the backend replays the chunks it was sent
EchoGet ==
  /\ pc = "done"
  /\ op.method = "CreateSecretStream"
  /\ ret = Ok
  /\ pc' = "call"
  /\ op' = [NoOp EXCEPT !.method = "GetLatestSecretStream",
                        !.name = op.info.Name]
  /\ echo' = TRUE
  /\ tokenReads' = 0
  /\ readFile' = "none"
  /\ wire' = <<>>
  /\ ret' = NoRet
  /\ svc' = <<[method |-> "GetLatestSecretStream", name |-> op.info.Name,
               version |-> 0]>>
  /\ cli' = NoCli
  /\ cliRet' = NoRet
  /\ cliOut' = <<>>
  /\ UNCHANGED <<tokenFile, upVars, downVars, cancelled, authVars, pipeVars>>

(***************************************************************************)
(* register and login: RunE calls AuthService.Register / Login, which      *)
(* calls the AuthClient and then TokenRepo.SaveToken.                      *)
(***************************************************************************)
AuthCmd(cmd, method) ==
  /\ pc = "idle"
  /\ pc' = "authCall"
  /\ op' = [NoOp EXCEPT !.method = method]
  /\ cli' = [NoCli EXCEPT !.cmd = cmd]
  /\ UNCHANGED <<tokenFile, tokenReads, readFile, wire, upVars, downVars,
                 echo, ret, cancelled, svc, cliRet, cliOut, authVars,
                 pipeVars>>

RegisterCmd == AuthCmd("register", "Register")
LoginCmd == AuthCmd("login", "Login")

\* what the AuthClient method of the operation returns for the response
AuthClientCall(method, resp) ==
  IF method = "Register" THEN AuthClientRegister(resp)
  ELSE AuthClientLogin(resp)

\* s.client.Register / s.client.Login and the check of its error
AuthCall ==
  /\ pc = "authCall"
  /\ \E resp \in AuthResponses :
       LET a == AuthServiceCall(op.method, AuthClientCall(op.method, resp))
       IN /\ authRes' = resp
          /\ IF a.save
             THEN pc' = "saveToken" /\ UNCHANGED ret
             ELSE pc' = "done" /\ ret' = Failed(a.err)
  /\ UNCHANGED <<tokenFile, op, tokenReads, readFile, wire, upVars, downVars,
                 echo, cancelled, svc, cliVars, saves, tokenBefore, pipeVars>>

\* s.tokenRepository.SaveToken(jwtToken)
SaveTokenStep ==
  /\ pc = "saveToken"
  /\ \E o \in SaveTokenOutcomes :
       LET jwtToken == AuthClientCall(op.method, authRes).token
           st == SaveToken(tokenFile, jwtToken, o)
       IN /\ saves' = saves + 1
          /\ tokenFile' \in st.files
          /\ pc' = "done"
          /\ ret' = IF st.err = NoErr THEN Ok
                    ELSE Failed(AuthServiceErr(op.method, st.err))
  /\ UNCHANGED <<op, tokenReads, readFile, wire, upVars, downVars, echo,
                 cancelled, svc, cliVars, authRes, tokenBefore, pipeVars>>

(***************************************************************************)
(* get-credentials, get-paymentcard, get-text, get-file-secret and delete. *)
(***************************************************************************)
CliVersions == {-1, 0} \cup Versions

GetCommand(cmd, n, v) ==
  /\ cli' = [cmd |-> cmd, name |-> n, version |-> v, answer |-> ""]
  /\ UNCHANGED <<cliRet, cliOut>>
  /\ Forward(GetMethod(cmd, v), n, IF IsLatest(v) THEN 0 ELSE v)

\* the answers typed at the prompt of delete; "" also stands for no answer
Answers == {"y", "Y", "n", "N", "", "yes", "YES", " Y"}

DeleteCmd(n, answer) ==
  /\ cli' = [cmd |-> "delete", name |-> n, version |-> 0, answer |-> answer]
  /\ IF Confirmed(answer)
     THEN /\ Forward("DeleteSecret", n, 0)
          /\ UNCHANGED <<cliRet, cliOut>>
     ELSE /\ pc = "idle"
          /\ pc' = "done"
          /\ cliRet' = Ok
          /\ cliOut' = <<"Deletion cancelled">>
          /\ UNCHANGED <<tokenFile, op, tokenReads, readFile, wire, upVars,
                         downVars, echo, ret, cancelled, svc, authVars,
                         pipeVars>>

\* what RunE can return after the service call succeeded: the buffered gets
\* decode the data they received
CmdResults(cmd) ==
  CASE cmd = "get-credentials" ->
         {Ok, Failed(<<"failed to decode credentials">>)}
    [] cmd = "get-paymentcard" ->
         {Ok, Failed(<<"failed to decode card data">>)}
    [] OTHER -> {Ok}

\* RunE returns once the service call has returned
CmdReturn ==
  /\ pc = "done"
  /\ cli.cmd # "none"
  /\ cliRet = NoRet
  /\ ret # NoRet
  /\ IF ret.st = "err"
     THEN /\ cliRet' = Failed(CmdErr(cli.cmd, cli.name, ret.err))
          /\ UNCHANGED cliOut
     ELSE \E r \in CmdResults(cli.cmd) :
            /\ cliRet' = r
            /\ cliOut' = IF r = Ok THEN CmdOk(cli.cmd, cli.name) ELSE <<>>
  /\ UNCHANGED <<tokenFile, pc, op, tokenReads, readFile, wire, upVars,
                 downVars, echo, ret, cancelled, svc, cli, authVars,
                 pipeVars>>

(***************************************************************************)
(* create-text: RunE starts the producer goroutine and calls               *)
(* SecretService.CreateSecret with the read end of the pipe.               *)
(***************************************************************************)
CreateTextCmd(lines) ==
  /\ cli' = [NoCli EXCEPT !.cmd = "create-text", !.name = "n"]
  /\ UNCHANGED <<cliRet, cliOut>>
  /\ stdin' = lines
  /\ input' = lines
  /\ prod' = "scan"
  /\ UNCHANGED <<pipeData, pipeClosed>>
  /\ CreateSecret([Name |-> "n", Type |-> TextSecretType, Metadata |-> "m",
                   Version |-> 0], <<>>)

\* scanner.Scan() and the test of the line: the loop ends when the input
\* ends, when the scanner gives up on a line, and on the line "end"
ProducerScan ==
  /\ prod = "scan"
  /\ IF stdin = <<>> \/ TooLong(Head(stdin)) \/ IsSentinel(Head(stdin))
     THEN prod' = "close" /\ UNCHANGED pipeData
     ELSE prod' = "write" /\ pipeData' = Head(stdin) \o <<LF>>
  /\ stdin' = IF stdin = <<>> THEN stdin ELSE Tail(stdin)
  /\ UNCHANGED <<tokenFile, pc, op, tokenReads, readFile, wire, upVars,
                 downVars, echo, ret, cancelled, svc, cliVars, authVars,
                 input, pipeClosed>>

\* pw.Write returns once the reader has taken every byte
ProducerWriteDone ==
  /\ prod = "write"
  /\ pipeData = <<>>
  /\ prod' = "scan"
  /\ UNCHANGED <<tokenFile, pc, op, tokenReads, readFile, wire, upVars,
                 downVars, echo, ret, cancelled, svc, cliVars, authVars,
                 stdin, input, pipeData, pipeClosed>>

\* defer pw.Close()
ProducerClose ==
  /\ prod = "close"
  /\ prod' = "done"
  /\ pipeClosed' = TRUE
  /\ UNCHANGED <<tokenFile, pc, op, tokenReads, readFile, wire, upVars,
                 downVars, echo, ret, cancelled, svc, cliVars, authVars,
                 stdin, input, pipeData>>

(***************************************************************************)
(* The context of a streamed create or get is cancelled while the          *)
(* operation runs: the transport fails the calls that follow, and a get    *)
(* stream ends with the status Canceled.                                   *)
(***************************************************************************)
Cancel ==
  /\ ~cancelled
  /\ op.method \in StreamMethods
  /\ pc \in {"call", "sendInfo", "sendData", "closeRecv", "recvFirst",
             "reading"}
  /\ ~(lastRead.called /\ lastRead.err # NoErr)
  /\ cancelled' = TRUE
  /\ IF pc \in {"recvFirst", "reading"}
     THEN incoming' = <<>> /\ endKind' = "Canceled"
     ELSE UNCHANGED <<incoming, endKind>>
  /\ UNCHANGED <<tokenFile, pc, op, tokenReads, readFile, wire, upVars,
                 recvd, buffer, index, out, lastRead, result, echo, ret,
                 svc, cliVars, authVars, pipeVars>>

\* the process exits; the next one starts from the token file it left
Exit ==
  /\ pc \in {"done", "reading"}
  /\ pc' = "idle"
  /\ op' = NoOp
  /\ tokenReads' = 0
  /\ readFile' = "none"
  /\ wire' = <<>>
  /\ sent' = <<>>
  /\ closed' = FALSE
  /\ src' = <<>>
  /\ srcPos' = 0
  /\ acc' = <<>>
  /\ nReads' = 0
  /\ facade' = <<>>
  /\ incoming' = <<>>
  /\ endKind' = "EOF"
  /\ recvd' = <<>>
  /\ buffer' = <<>>
  /\ index' = 0
  /\ out' = <<>>
  /\ lastRead' = NoRead
  /\ result' = NoResult
  /\ echo' = FALSE
  /\ ret' = NoRet
  /\ cancelled' = FALSE
  /\ svc' = <<>>
  /\ cli' = NoCli
  /\ cliRet' = NoRet
  /\ cliOut' = <<>>
  /\ authRes' = NoAuthRes
  /\ saves' = 0
  /\ tokenBefore' = tokenFile
  /\ stdin' = <<>>
  /\ input' = <<>>
  /\ prod' = "none"
  /\ pipeData' = <<>>
  /\ pipeClosed' = FALSE
  /\ UNCHANGED tokenFile

Next ==
  \/ \E info \in SecretInfos, s \in Sources :
       CreateSecret(info, s) /\ UNCHANGED <<cliVars, pipeVars>>
  \/ ReadAllStep
  \/ ListSecrets
  \/ GetLatestSecret
  \/ GetSecretByVersion
  \/ GetLatestSecretStream
  \/ GetSecretStreamByVersion
  \/ DeleteSecret
  \/ Call
  \/ SendInfo
  \/ SendData
  \/ CloseAndRecv
  \/ RecvFirst
  \/ \E p \in 0..MaxReq : ReaderRead(p)
  \/ EchoGet
  \/ RegisterCmd
  \/ LoginCmd
  \/ AuthCall
  \/ SaveTokenStep
  \/ \E cmd \in GetCmds, n \in Names, v \in CliVersions : GetCommand(cmd, n, v)
  \/ \E n \in Names, answer \in Answers : DeleteCmd(n, answer)
  \/ CmdReturn
  \/ \E lines \in Inputs : CreateTextCmd(lines)
  \/ ProducerScan
  \/ ProducerWriteDone
  \/ ProducerClose
  \/ Cancel
  \/ Exit

Spec == Init /\ [][Next]_vars

\* the steps of the program itself: the runtime schedules each goroutine
\* that can run, and a call of the transport returns.  The arrival of a
\* line on standard input (ProducerScan) is left to the user.
Step ==
  \/ ReadAllStep
  \/ Call
  \/ SendInfo
  \/ SendData
  \/ CloseAndRecv
  \/ RecvFirst
  \/ \E p \in 1..MaxReq : ReaderRead(p)
  \/ AuthCall
  \/ SaveTokenStep
  \/ CmdReturn
  \/ ProducerWriteDone
  \/ ProducerClose

FairSpec == Init /\ [][Next]_vars /\ WF_vars(Step)

\* the same, with a user who goes on typing: every line of standard input,
\* and its end, eventually reach the scanner of create-text
FairInputSpec ==
  Init /\ [][Next]_vars /\ WF_vars(Step) /\ WF_vars(ProducerScan)

TypeOK ==
  /\ tokenFile \in TokenFiles
  /\ pc \in {"idle", "readAll", "call", "sendInfo", "sendData", "closeRecv",
             "recvFirst", "reading", "authCall", "saveToken", "done"}
  /\ srcPos \in 0..Len(src)
  /\ index \in 0..Len(buffer)
  /\ ret.st \in {"none", "ok", "err"}
  /\ cancelled \in BOOLEAN
  /\ cliRet.st \in {"none", "ok", "err"}
  /\ authRes \in AuthResponses \cup {NoAuthRes}
  /\ saves \in 0..1
  /\ prod \in {"none", "scan", "write", "close", "done"}
  /\ pipeClosed \in BOOLEAN

(***************************************************************************)
(* Properties.                                                             *)
(***************************************************************************)
\* a streamed create (SecretClient.CreateSecretStream) is in progress or has
\* just returned
InCreateStream == op.method = "CreateSecretStream"

\* the streamed create returned nil
CreateStreamOk == InCreateStream /\ pc = "done" /\ ret = Ok

\* the reader of a streamed get reported end-of-stream
ReaderAtEOF == pc = "reading" /\ lastRead.called /\ lastRead.err = <<"EOF">>

\* C1: round trip of the chunked codec.  When the Data messages a streamed
\* create sent for the source src are replayed to the download reader and
\* read until end-of-stream, the bytes handed to the caller are exactly src;
\* for the empty source only the Info message was sent and no byte is read.
RoundTripIdentity ==
  (echo /\ ReaderAtEOF) =>
    /\ out = src
    /\ (src = <<>> => Len(sent) = 1 /\ out = <<>>)

\* C2: framing of the upload.  The messages sent so far on the create stream
\* are one Info message followed by Data messages only, every Data message
\* holds between 1 and chunkSize bytes, and the payloads are, in order, the
\* first bytes of the source.
UploadFraming ==
  /\ sent # <<>> => sent[1].kind = "Info"
  /\ InCreateStream /\ sent # <<>> => sent[1] = sendMetadataChunk(op.info)
  /\ \A i \in 2..Len(sent) :
       /\ sent[i].kind = "Data"
       /\ Len(sent[i].data) \in 1..chunkSize
  /\ Len(Payload(sent)) <= srcPos
  /\ Payload(sent) = SubSeq(src, 1, Len(Payload(sent)))

\* C2 witness: a streamed create that has sent two Data messages
UploadFramingWitness ==
  InCreateStream /\ pc = "sendData" /\ Len(sent) = 3

DispatchByType ==
  LET t == op.info.Type
  IN /\ t \in {CredentialsSecretType, PaymentCardSecretType} =>
          /\ Len(facade) <= 1
          /\ \A i \in 1..Len(facade) :
               facade[i] = [fn |-> "CreateSecret", data |-> src,
                            pos |-> Len(src)]
          /\ pc = "readAll" => facade = <<>>
          /\ pc = "call" \/ ret = Ok => Len(facade) = 1
     /\ t \in {FileSecretType, TextSecretType} =>
          /\ facade = <<[fn |-> "CreateSecretStream", data |-> <<>>,
                         pos |-> 0]>>
          /\ acc = <<>>

\* C4 witness: a buffered create of a source of several bytes has returned
DispatchByTypeWitness ==
  /\ op.info.Type = PaymentCardSecretType
  /\ pc = "done"
  /\ ret = Ok
  /\ Len(src) >= 2

\* C5: every call or stream that reaches the transport carries exactly the
\* metadata entry authorization = "Bearer " + the stored token, the token
\* store was read exactly once when it is dispatched, and an operation sends
\* or receives on a stream, or succeeds, only after such a dispatch.
EveryCallCarriesBearerToken ==
  /\ \A i \in 1..Len(wire) :
       /\ tokenFile.data \in Tokens
       /\ wire[i].md = << <<"authorization", "Bearer " \o tokenFile.data>> >>
       /\ wire[i].reads = 1
       /\ wire[i].method = op.method
  /\ tokenReads <= 1
  /\ Len(wire) <= tokenReads
  /\ pc \in {"sendInfo", "sendData", "closeRecv", "recvFirst", "reading"}
       => Len(wire) = 1
  /\ pc = "done" /\ ret = Ok /\ op.method \in StreamMethods \cup UnaryMethods
       => Len(wire) = 1

\* C5 witness: a create stream was opened and has sent a Data message
EveryCallCarriesBearerTokenWitness ==
  InCreateStream /\ pc = "sendData" /\ Len(sent) >= 2 /\ Len(wire) = 1

\* the token store reported that no token is stored: the file is missing or
\* empty
NoTokenStored ==
  \/ readFile = "ErrNotExist"
  \/ readFile = "ok" /\ tokenFile.data = ""

\* C6: when the token store reports no token, the operation fails with the
\* token-not-found error and nothing is transmitted: no call or stream
\* reaches the transport and no message is sent or received.
NoTokenNothingTransmitted ==
  NoTokenStored =>
    /\ pc = "done"
    /\ ret.st = "err"
    /\ ErrorsIs(ret.err, "ErrTokenNotFound")
    /\ wire = <<>>
    /\ sent = <<>>
    /\ recvd = <<>>
    /\ ~closed

\* C6 witness: a streamed create was attempted with an empty token file
NoTokenNothingTransmittedWitness ==
  /\ NoTokenStored
  /\ tokenFile.exists
  /\ InCreateStream
  /\ pc = "done"

StreamGets == {"GetLatestSecretStream", "GetSecretStreamByVersion"}

\* an error that carries a status of the transport
IsTransportErr(err) == \E c \in StatusCodes : ErrorsIs(err, c)

\* an error raised by the framing checks of the client
IsProtocolErr(err) == err # NoErr /\ ~IsTransportErr(err)

\* the step that makes the first stream.Recv of a streamed get, and its
\* outcome: an Info message
\* gives the reader and the SecretInfo decoded from that message, anything
\* else an error of the class errClass and neither reader nor SecretInfo
FirstRecvStep(errClass(_)) ==
  (pc = "recvFirst" /\ pc' # "recvFirst") =>
    IF incoming # <<>> /\ Head(incoming).kind = "Info"
    THEN /\ pc' = "reading"
         /\ ret' = Ok
         /\ result' =
              [reader |-> TRUE,
               info |-> mapProtoGetSecretInfoResponseToDomainSecretInfo(
                          Head(incoming).info)]
    ELSE /\ pc' = "done"
         /\ ret'.st = "err"
         /\ errClass(ret'.err)
         /\ result' = NoResult

\* no byte is handed out unless a reader was returned
NoByteWithoutReader == ~result.reader => out = <<>> /\ ~lastRead.called

FirstRecvErrClass(err) ==
  IF incoming = <<>> /\ endKind # "EOF"
  THEN ErrorsIs(err, endKind)
  ELSE IsProtocolErr(err)

ReaderDeliversPayload ==
  pc = "reading" =>
    /\ lastRead.n <= lastRead.p
    /\ Len(lastRead.frag) = lastRead.n
    /\ out \o SubSeq(buffer, index + 1, Len(buffer)) = Payload(recvd)
    /\ ReaderAtEOF => incoming = <<>> /\ out = Payload(recvd)

\* C8 witness: end-of-stream after payloads of at least three bytes, which
\* span several Data messages and several reads
ReaderDeliversPayloadWitness ==
  ~echo /\ ReaderAtEOF /\ Len(out) >= 3

\* number of empty Data messages in a sequence
EmptyChunks(msgs) ==
  Len(SelectSeq(msgs, LAMBDA m : m.kind = "Data" /\ m.data = <<>>))

\* C9 as stated: a Read makes at most one stream.Recv call, whatever the
\* stream delivers.
AtMostOneRecvPerRead == lastRead.recvs <= 1

\* C9 amended: a Read makes no stream.Recv call when the buffer holds
\* unconsumed bytes, and otherwise one call plus one more for every empty
\* Data message it receives; so at most one when no empty Data message
\* arrives.
RecvsPerRead ==
  lastRead.called =>
    /\ lastRead.avail > 0 => lastRead.recvs = 0
    /\ lastRead.avail = 0 =>
         lastRead.recvs = 1 + EmptyChunks(lastRead.got)
    /\ EmptyChunks(lastRead.got) = 0 => lastRead.recvs <= 1

\* C9 witness: a Read that received an empty Data message and called
\* stream.Recv again
RecvsPerReadWitness ==
  lastRead.called /\ lastRead.recvs >= 2 /\ EmptyChunks(lastRead.got) >= 1

\* C10: a Read that finds unconsumed bytes in the buffer is served from them
\* without a stream.Recv; only a Read that finds the buffer exhausted
\* receives, and when the message it receives is not a Data message it
\* fails with the Protocol error and hands out no byte.
BufferBeforeRecv ==
  lastRead.called =>
    /\ lastRead.avail > 0 =>
         /\ lastRead.recvs = 0
         /\ lastRead.got = <<>>
         /\ lastRead.err = NoErr
         /\ lastRead.n = Min(lastRead.p, lastRead.avail)
    /\ lastRead.recvs > 0 => lastRead.avail = 0
    /\ \A i \in 1..Len(lastRead.got) :
         lastRead.got[i].kind # "Data" =>
           /\ i = Len(lastRead.got)
           /\ lastRead.err = <<"expected data chunk">>
           /\ IsProtocolErr(lastRead.err)
           /\ lastRead.n = 0
           /\ lastRead.frag = <<>>

\* C10 witness: after payload bytes were handed out, a Read received a
\* second Info message
BufferBeforeRecvWitness ==
  /\ pc = "reading"
  /\ out # <<>>
  /\ lastRead.got # <<>>
  /\ lastRead.got[Len(lastRead.got)].kind = "Info"

\* C11: a Read reports end-of-stream (zero bytes and io.EOF) exactly when it
\* found the buffer exhausted, the messages it then received carried no
\* byte, and the stream ended with io.EOF; when the stream ended with a
\* status instead (connection loss, cancellation) the Read at its end fails
\* with an error wrapping that status, and no Read ever reports
\* end-of-stream on such a stream.
EndOfStreamOnlyOnEOF ==
  (pc = "reading" /\ lastRead.called) =>
    /\ lastRead.err = <<"EOF">> <=>
         /\ lastRead.avail = 0
         /\ lastRead.n = 0
         /\ Payload(lastRead.got) = <<>>
         /\ lastRead.recvs = Len(lastRead.got) + 1
         /\ incoming = <<>>
         /\ endKind = "EOF"
    /\ lastRead.err = <<"EOF">> => lastRead.frag = <<>>
    /\ endKind # "EOF" =>
         /\ lastRead.err # <<"EOF">>
         /\ lastRead.recvs = Len(lastRead.got) + 1 =>
              /\ lastRead.err # NoErr
              /\ lastRead.n = 0
              /\ (\A i \in 1..Len(lastRead.got) :
                    lastRead.got[i].kind = "Data") =>
                   lastRead.err = Wrap("stream read failed", <<endKind>>)

\* C11 witness: after payload bytes were handed out, a Read found the stream
\* cut by a transport failure and reported the failure
EndOfStreamOnlyOnEOFWitness ==
  /\ pc = "reading"
  /\ out # <<>>
  /\ endKind = "Unavailable"
  /\ lastRead.called
  /\ ErrorsIs(lastRead.err, "Unavailable")

\* the backend rejected the Register or Login of the operation: it answered
\* with an error, or with an empty token
AuthRejected ==
  /\ op.method \in AuthMethods
  /\ authRes # NoAuthRes
  /\ (authRes.status # "OK" \/ authRes.token = "")

\* C12: when the backend rejects a Register or Login, the AuthService
\* returns an error, SaveToken is not called and the token file is what it
\* was before the operation.
RejectedAuthSavesNothing ==
  AuthRejected =>
    /\ pc = "done"
    /\ ret.st = "err"
    /\ saves = 0
    /\ tokenFile = tokenBefore

\* C12 witness: a Login was answered with an empty token while the store
\* held a token
RejectedAuthSavesNothingWitness ==
  /\ AuthRejected
  /\ op.method = "Login"
  /\ authRes.status = "OK"
  /\ tokenFile.data \in Tokens

\* C13: a streamed create that failed has returned an error and sends
\* nothing more, and a streamed create returns success only after it sent
\* the whole source and received the acknowledgement.
UploadAllOrError ==
  InCreateStream =>
    /\ ret.st = "err" => pc = "done"
    /\ (pc = "done" /\ ret = Ok) =>
         /\ closed
         /\ srcPos = Len(src)
         /\ Payload(sent) = src

\* a streamed create or a streamed get
InStream == op.method \in StreamMethods

\* the operation returned an error to its caller: the create or the get
\* itself, or a Read of the reader a get returned
ReturnedError ==
  \/ pc = "done" /\ ret.st = "err"
  \/ pc = "reading" /\ lastRead.called /\ lastRead.err # NoErr

\* C14, the part of it that fails: once the context of a streamed create or
\* get is cancelled, the operation eventually returns an error to its
\* caller (or the process ends).
CancelLeadsToError == (cancelled /\ InStream) ~> (ReturnedError \/ ~cancelled)

\* C15, for the two cases it names: a failed DeleteSecret or Login never
\* hands its caller the raw NotFound status of the backend, and a Login
\* answered with NotFound fails with the error of the NotFound kind,
\* ErrUserNotFound.
NotFoundIsTranslated ==
  (pc = "done" /\ ret.st = "err" /\ op.method \in {"DeleteSecret", "Login"})
    => /\ ~ErrorsIs(ret.err, "NotFound")
       /\ authRes.status = "NotFound" => ErrorsIs(ret.err, "ErrUserNotFound")

VersionSelection ==
  cli.cmd \in GetCmds =>
    svc = <<[method |->
               IF cli.version = 0
               THEN IF cli.cmd \in {"get-credentials", "get-paymentcard"}
                    THEN "GetLatestSecret" ELSE "GetLatestSecretStream"
               ELSE IF cli.cmd \in {"get-credentials", "get-paymentcard"}
                    THEN "GetSecretByVersion"
                    ELSE "GetSecretStreamByVersion",
             name |-> cli.name,
             version |-> cli.version]>>

\* C17 witness: get-text with a negative version has received its first
\* chunk
VersionSelectionWitness ==
  cli.cmd = "get-text" /\ cli.version < 0 /\ pc = "reading"

\* C18: delete invokes DeleteSecret only when the answer is y or Y: then
\* exactly once, for the given name, and the command fails when the call
\* fails; with any other answer, or none, it invokes nothing, transmits
\* nothing, prints "Deletion cancelled" and returns success.
DeleteNeedsConfirmation ==
  cli.cmd = "delete" =>
    IF cli.answer \in {"y", "Y"}
    THEN /\ svc = <<[method |-> "DeleteSecret", name |-> cli.name,
                     version |-> 0]>>
         /\ Len(wire) <= 1
         /\ \A i \in 1..Len(wire) : wire[i].method = "DeleteSecret"
         /\ cliRet # NoRet => cliRet.st = ret.st
         /\ cliOut # <<"Deletion cancelled">>
    ELSE /\ svc = <<>>
         /\ wire = <<>>
         /\ tokenReads = 0
         /\ pc = "done"
         /\ cliRet = Ok
         /\ cliOut = <<"Deletion cancelled">>

\* C18 witness: a delete confirmed with Y whose call failed has returned
DeleteNeedsConfirmationWitness ==
  /\ cli.cmd = "delete"
  /\ cli.answer = "Y"
  /\ Len(wire) = 1
  /\ cliRet.st = "err"

IsPrefix(a, b) == Len(a) <= Len(b) /\ a = SubSeq(b, 1, Len(a))

\* the lines before the first line that trims to "end", each followed by a
\* newline
RECURSIVE TextBeforeEnd(_)
TextBeforeEnd(lines) ==
  IF lines = <<>> \/ TrimSpace(Head(lines)) = <<"e", "n", "d">> THEN <<>>
  ELSE Head(lines) \o <<LF>> \o TextBeforeEnd(Tail(lines))

\* C19: in create-text, under every interleaving of the producer and the
\* uploader, the bytes the uploader has read are a prefix of the input lines
\* before the line "end", each with its newline; when the uploader has seen
\* the end of its input they are all of them; and no read of the pipe fails.
PipeDeliversTextBeforeEnd ==
  cli.cmd = "create-text" =>
    /\ IsPrefix(src, TextBeforeEnd(input))
    /\ (pc = "closeRecv" \/ closed) => src = TextBeforeEnd(input)
    /\ ~ErrorsIs(ret.err, "ReadErr")

\* at most one call of each layer was made by the operation
AtMostOneCall ==
  /\ Len(svc) <= 1
  /\ Len(facade) <= 1
  /\ tokenReads <= 1
  /\ Len(wire) <= 1
  /\ Len(wire) <= tokenReads

\* once the operation has failed, nothing more is transmitted and the error
\* stands until the process ends
FailureIsFinal ==
  ret.st = "err" =>
    \/ pc' = "idle"
    \/ /\ pc' = "done"
       /\ ret' = ret
       /\ tokenReads' = tokenReads
       /\ wire' = wire
       /\ facade' = facade
       /\ sent' = sent
       /\ closed' = closed
       /\ recvd' = recvd

\* C20: no retry.  An operation of the facade makes at most one call of a
\* stub, so at most one call or stream reaches the transport, whether it
\* succeeds or fails; a failed operation is not issued again or resumed.
NoRetry == []AtMostOneCall /\ [][FailureIsFinal]_vars

\* C20 witness: a streamed create failed after it had sent a Data message
NoRetryWitness ==
  /\ InCreateStream
  /\ pc = "done"
  /\ ret.st = "err"
  /\ Len(sent) >= 2
  /\ Len(wire) = 1

\* C21: the mapping of secret types is one-to-one on the four types.  Each
\* domain type encoded and decoded again is itself, a file being BINARY on
\* the wire; two domain types never share a wire value; every wire value
\* without a name decodes to "unknown"; and the SecretInfo a streamed get
\* returned holds the decoding of the type its Info message carried, which
\* for a secret replayed from a streamed create is the type it was created
\* with.
SecretTypeBijection ==
  /\ \A t \in DomainSecretTypes :
       mapProtoSecretTypeToDomain(mapDomainSecretTypeToProto(t)) = t
  /\ mapDomainSecretTypeToProto(FileSecretType) = "BINARY"
  /\ \A t, u \in DomainSecretTypes :
       t # u => mapDomainSecretTypeToProto(t) # mapDomainSecretTypeToProto(u)
  /\ \A w \in ProtoSecretTypes \ KnownProtoSecretTypes :
       mapProtoSecretTypeToDomain(w) = "unknown"
  /\ result.reader =>
       /\ recvd[1].info.Type \notin KnownProtoSecretTypes
            => result.info.Type = "unknown"
       /\ recvd[1].info.Type \in KnownProtoSecretTypes
            => /\ result.info.Type \in DomainSecretTypes
               /\ mapDomainSecretTypeToProto(result.info.Type)
                    = recvd[1].info.Type
       /\ echo => mapDomainSecretTypeToProto(result.info.Type)
                    = sent[1].info.Type

\* C21 witness: a streamed get returned a SecretInfo whose type was decoded
\* from a wire value that has no name
SecretTypeBijectionWitness ==
  /\ result.reader
  /\ recvd[1].info.Type = "7"
  /\ result.info.Type = "unknown"

\* the send side of the create stream is closed only at the end of the
\* input: the Info message and one Data message for every non-empty read
\* were sent, the source has no byte left (the pipe of create-text was closed
\* by its writer); success needs the close, which is made once
CloseAfterEndOfInput ==
  InCreateStream =>
    /\ closed =>
         /\ sent # <<>>
         /\ sent[1].kind = "Info"
         /\ Len(DataMsgs(sent)) = nReads
         /\ IF prod = "none" THEN srcPos = Len(src)
            ELSE pipeClosed /\ pipeData = <<>>
    /\ (pc = "done" /\ ret = Ok) => closed
    /\ pc = "closeRecv" => ~closed

\* once the send side is closed, no message is sent and the stream stays
\* closed until the process ends
NothingAfterClose ==
  (closed /\ pc' # "idle") => (sent' = sent /\ closed')

\* the streamed create returns success only in the step that receives the
\* acknowledgement of CloseAndRecv
SuccessOnlyByAck ==
  (InCreateStream /\ ret # Ok /\ ret' = Ok) => (pc = "closeRecv" /\ closed')

\* C22: in a streamed create, CloseAndRecv is called only after the Info
\* message and every Data message were sent and the source signalled
\* end-of-input; the create returns success only when that one
\* acknowledgement arrived without error; nothing is sent after the close.
CloseOnlyAtEnd ==
  /\ []CloseAfterEndOfInput
  /\ [][NothingAfterClose /\ SuccessOnlyByAck]_vars

\* C22 witness: a streamed create of several chunks was closed and
\* acknowledged
CloseOnlyAtEndWitness ==
  /\ CreateStreamOk
  /\ closed
  /\ Len(sent) >= 3
  /\ Payload(sent) = src

\* a step of a streamed create: the loop of sendDataChunks is left for the
\* close only when the source is at its end; the step in which the create
\* fails before the close leaves the send side open; and once the create
\* has failed the send side is not closed
AbortSkipsClose ==
  InCreateStream =>
    /\ (pc = "sendData" /\ pc' = "closeRecv") =>
         IF prod = "none" THEN srcPos' = Len(src)
         ELSE pipeClosed /\ pipeData = <<>>
    /\ (ret.st # "err" /\ ret'.st = "err" /\ pc # "closeRecv") => ~closed'
    /\ (ret.st = "err" /\ pc' # "idle") => closed' = closed

\* a cancelled streamed create never succeeds, and a CloseAndRecv made on
\* its cancelled stream fails with the cancellation status
CancelNeverCommits ==
  (InCreateStream /\ cancelled) =>
    /\ ret # Ok
    /\ closed => (ret.st = "err" /\ ErrorsIs(ret.err, "Canceled"))

StreamedTypeCreate ==
  /\ op.info.Type \in {FileSecretType, TextSecretType}
  /\ op.method \in {"none", "CreateSecret", "CreateSecretStream"}

\* C24: bounded buffering on the streamed path.  In a File or Text create
\* the bytes read from the source and not sent in a Data message are at most
\* chunkSize; a source longer than chunkSize is never read to its end
\* without a Data message having been sent; and in create-text, while the
\* producer runs, what it took from standard input is what the uploader has
\* read plus the one write the producer is blocked on.
BoundedBuffering ==
  StreamedTypeCreate =>
    /\ srcPos - Len(Payload(sent)) \in 0..chunkSize
    /\ Len(acc) = 0
    /\ (prod = "none" /\ Len(src) > chunkSize /\ srcPos = Len(src))
         => DataMsgs(sent) # <<>>
    /\ pipeData # <<>> =>
         /\ prod = "write"
         /\ LET w == input[Len(input) - Len(stdin)] \o <<LF>>
            IN pipeData = SubSeq(w, Len(w) - Len(pipeData) + 1, Len(w))
    /\ prod \in {"scan", "write"} =>
         src \o pipeData
           = TextBeforeEnd(SubSeq(input, 1, Len(input) - Len(stdin)))

\* C24 witness: in create-text the uploader has read and sent the first
\* bytes of a line while the producer, with a line still to scan, is blocked
\* on the rest of its write
BoundedBufferingWitness ==
  /\ cli.cmd = "create-text"
  /\ prod = "write"
  /\ pipeData # <<>>
  /\ stdin # <<>>
  /\ Payload(sent) = src
  /\ src # <<>>

\* the name, the wire type and the metadata of a SecretInfo, and nothing else
NameTypeMetadata(info) ==
  [Name |-> info.Name,
   Type |-> CASE info.Type = CredentialsSecretType -> "CREDENTIALS"
              [] info.Type = PaymentCardSecretType -> "PAYMENT_CARD"
              [] info.Type = FileSecretType -> "BINARY"
              [] info.Type = TextSecretType -> "TEXT"
              [] OTHER -> "-1",
   Metadata |-> info.Metadata]

\* C25: the client never produces a version.  The Info of the request of a
\* buffered create and the Info message of a streamed create hold exactly
\* the name, the type and the metadata of the SecretInfo given, whatever its
\* Version and CreatedAt are.
CreateInfoHasNoVersion ==
  /\ \A info \in SecretInfos, c \in {0, 1} :
       mapDomainSecretInfoToProtoCreateSecretInfoRequest(
         [Name |-> info.Name, Type |-> info.Type, Metadata |-> info.Metadata,
          Version |-> info.Version, CreatedAt |-> c])
       = NameTypeMetadata(info)
  /\ (InCreateStream /\ sent # <<>>) =>
       /\ sent[1].kind = "Info"
       /\ sent[1].info = NameTypeMetadata(op.info)
  /\ \A i \in 1..Len(wire) :
       wire[i].method = "CreateSecret" =>
         /\ wire[i].req.Info = NameTypeMetadata(op.info)
         /\ wire[i].req.Data = acc

\* C25 witness: a buffered create of a SecretInfo with a nonzero Version
\* reached the transport
CreateInfoHasNoVersionWitness ==
  /\ Len(wire) = 1
  /\ wire[1].method = "CreateSecret"
  /\ op.info.Version # 0
  /\ pc = "done"
  /\ ret = Ok

\* SecretService.CreateSecret was called and returned success
CreateReturnedOk ==
  /\ op.info # NoInfo
  /\ op.method \in {"none", "CreateSecret", "CreateSecretStream"}
  /\ pc = "done"
  /\ ret = Ok

\* C26: whenever SecretService.CreateSecret returns success, exactly one
\* create, buffered or streamed, was issued to the facade for the secret,
\* for every value of the type of the secret.
CreateOkMeansOneCreate ==
  CreateReturnedOk =>
    /\ Len(facade) = 1
    /\ facade[1].fn \in {"CreateSecret", "CreateSecretStream"}
    /\ Len(wire) = 1

\* a Read of the download reader has failed with an error that is not the
\* end of the stream
ReaderFailed ==
  /\ pc = "reading"
  /\ lastRead.called
  /\ lastRead.err # NoErr
  /\ lastRead.err # <<"EOF">>

\* a step after which the same reader has handed out no new byte
NoNewBytes == pc' = "reading" => out' = out

\* C27: errors of the download reader are sticky.  Once a Read has returned
\* an error other than end-of-stream, no later Read of the same reader
\* returns payload bytes.
ReaderErrorsAreSticky == [][ReaderFailed => NoNewBytes]_vars

\* the producer goroutine of create-text is running
ProducerRunning == prod \in {"scan", "write", "close"}

\* C28: in create-text, when standard input goes on to yield the line "end"
\* or its end, the producer goroutine eventually terminates, having closed
\* its end of the pipe, also when the upload failed or was cancelled and the
\* uploader reads the pipe no more.  Stated for as long as the process
\* lives: the end of the process discharges it.
ProducerTerminates ==
  ProducerRunning ~> ((prod = "done" /\ pipeClosed) \/ pc = "idle")

\* the token file holds no token: it is missing or empty
HoldsNoToken(tf) == ~tf.exists \/ tf.data = ""

\* C29: the token store holds no token or a non-empty token that a
\* successful Register or Login response carried.  SaveToken of the empty
\* token fails and leaves the file as it was; a response with an empty token
\* is rejected before any SaveToken; an empty file reads as token not found;
\* no secret operation writes the file; and an operation that changed the
\* file left it without a token or with the token of its response.
TokenStoreHoldsGrantedToken ==
  /\ \A tf \in TokenFiles, o \in SaveTokenOutcomes :
       /\ SaveToken(tf, "", o).err # NoErr
       /\ SaveToken(tf, "", o).files = {tf}
  /\ GetToken([exists |-> TRUE, data |-> ""], "ok")
       = [token |-> "", err |-> <<"ErrTokenNotFound">>]
  /\ (authRes.status = "OK" /\ authRes.token = "") =>
       /\ saves = 0
       /\ pc = "done" => ret.st = "err"
  /\ op.method \notin AuthMethods => (tokenFile = tokenBefore /\ saves = 0)
  /\ tokenFile # tokenBefore =>
       \/ HoldsNoToken(tokenFile)
       \/ /\ authRes.status = "OK"
          /\ authRes.token # ""
          /\ tokenFile = [exists |-> TRUE, data |-> authRes.token]
  /\ HoldsNoToken(tokenFile) \/ tokenFile.data \in Tokens

\* C29 witness: a Login replaced the stored token by the token of its
\* response
TokenStoreHoldsGrantedTokenWitness ==
  /\ op.method = "Login"
  /\ pc = "done"
  /\ ret = Ok
  /\ ~HoldsNoToken(tokenBefore)
  /\ tokenFile.data = authRes.token
  /\ tokenFile # tokenBefore

\* Register and Login do not consult the token store and send no token
AuthNeedsNoToken ==
  op.method \in AuthMethods => (tokenReads = 0 /\ wire = <<>>)

\* every call of a secret operation that reached the transport carries the
\* token the store holds
CallsCarryStoredToken ==
  \A i \in 1..Len(wire) :
    /\ ~HoldsNoToken(tokenFile)
    /\ wire[i].md = << <<"authorization", "Bearer " \o tokenFile.data>> >>

\* the store comes to hold a token, or another token, only in the step in
\* which a Register or Login succeeds, and then it holds the token of the
\* response of that Register or Login
StoredTokenIsLastGranted ==
  /\ (op.method \in AuthMethods /\ ret # Ok /\ ret' = Ok) =>
       /\ authRes.token # ""
       /\ tokenFile' = [exists |-> TRUE, data |-> authRes.token]
  /\ (tokenFile' # tokenFile /\ ~HoldsNoToken(tokenFile')) =>
       (op.method \in AuthMethods /\ ret # Ok /\ ret' = Ok)

\* C30: Register and Login are issued without consulting the token store;
\* after a successful Register or Login every secret operation carries the
\* token that authentication returned, until the next one succeeds: a call
\* carries the token the store holds, and the store holds the token of the
\* most recent successful Register or Login.
TokenFollowsAuth ==
  /\ []AuthNeedsNoToken
  /\ []CallsCarryStoredToken
  /\ [][StoredTokenIsLastGranted]_vars

\* C30 witness: a Register succeeded with no token stored before it, and
\* the store now holds the token it returned
TokenFollowsAuthWitness ==
  /\ op.method = "Register"
  /\ pc = "done"
  /\ ret = Ok
  /\ HoldsNoToken(tokenBefore)
  /\ tokenReads = 0
  /\ tokenFile.data = authRes.token

====
